---- MODULE Spec2Model ----
(***************************************************************************)
(* A model of the RESP client in src/main.py: the request encoder          *)
(* (build_resp_command), the recursive decoder (_parse), the one-shot      *)
(* decoder (parse_redis_response) and the transport loop                   *)
(* (send_redis_command).                                                   *)
(*                                                                         *)
(* Bytes are naturals 0..255, a bytes object is a sequence of them, a str  *)
(* is a sequence of code points.  Python indices are 0-based; TLA+         *)
(* sequences are 1-based, so buffer[i] of the source is buffer[i + 1].     *)
(***************************************************************************)
EXTENDS Integers, Sequences, FiniteSets, TLC

VARIABLES
    command,    \* the command argument of build_resp_command / send_redis_command
    args,       \* the *args of the same call, a sequence of str
    request,    \* the bytes build_resp_command returned (<<>> before the call)
    buffer,     \* _parse's buffer; in the transport loop, the accumulated bytes
    offset,     \* the idx argument of a direct _parse call
    parsed,     \* the outcome of the last _parse call
    pc,         \* position of the call being modelled
    sock,       \* "none", "open" or "closed": the socket of send_redis_command
    wire,       \* bytes the peer has still to deliver
    lastRecv,   \* what the last sock.recv did: "none", "chunk", "eof", "timeout"
    nconnect,   \* sock.connect calls so far
    nsend,      \* sock.sendall calls so far
    nrecv,      \* sock.recv calls so far
    fault,      \* the socket call that failed and how, "none" if none did
    result      \* how send_redis_command ended

vars == <<command, args, request, buffer, offset, parsed, pc, sock, wire,
          lastRecv, nconnect, nsend, nrecv, fault, result>>

----------------------------------------------------------------------------
(* Byte values the source names.                                           *)

Plus == 43
Minus == 45
Colon == 58
Dollar == 36
Star == 42
CR == 13
LF == 10
RecvSize == 4096

----------------------------------------------------------------------------
(* Python values and outcomes.                                             *)

\* None
PyNone == [t |-> "None", v |-> <<>>]
\* a str, as its code points
PyStr(cps) == [t |-> "str", v |-> cps]
\* an int
PyInt(n) == [t |-> "int", v |-> <<n>>]
\* a list
PyList(elems) == [t |-> "list", v |-> elems]

\* `return val, idx`
Ret(val, idx) == [k |-> "ret", val |-> val, idx |-> idx]
\* `raise exc(...)`: why tells the raising statement, msg is the text it carries
Raise(exc, why, msg) ==
    [k |-> "raise", exc |-> exc, why |-> why, msg |-> msg, inner |-> ""]

----------------------------------------------------------------------------
(* Python sequence primitives.                                             *)

\* the clamping of a slice bound or of the start of bytes.index
PyClamp(i, n) ==
    IF i < 0 THEN (IF i + n < 0 THEN 0 ELSE i + n)
    ELSE IF i > n THEN n ELSE i

\* s[a:b]
Slice(s, a, b) ==
    LET lo == PyClamp(a, Len(s))
        hi == PyClamp(b, Len(s))
    IN  IF lo < hi THEN SubSeq(s, lo + 1, hi) ELSE <<>>

\* buffer.index(b'\r\n', start); -1 stands for the ValueError of "not found"
IndexCRLF(s, start) ==
    LET lo == PyClamp(start, Len(s))
        hits == {e \in lo .. (Len(s) - 2) : s[e + 1] = CR /\ s[e + 2] = LF}
    IN  IF hits = {} THEN -1
        ELSE CHOOSE e \in hits : \A f \in hits : e <= f

\* whether buffer[i] raises IndexError
IndexOutOfRange(s, i) == i >= Len(s) \/ i < 0 - Len(s)

\* buffer[i], negative i counting from the end
ByteAt(s, i) == IF i < 0 THEN s[i + Len(s) + 1] ELSE s[i + 1]

----------------------------------------------------------------------------
(* int(bytes): optional surrounding whitespace, an optional sign, decimal  *)
(* digits with single underscores between them.                            *)

IsSpace(b) == b \in {9, 10, 11, 12, 13, 32}
IsDigit(b) == b \in 48 .. 57
Underscore == 95

RECURSIVE LStrip(_)
LStrip(s) == IF s # <<>> /\ IsSpace(Head(s)) THEN LStrip(Tail(s)) ELSE s

RECURSIVE RStrip(_)
RStrip(s) ==
    IF s # <<>> /\ IsSpace(s[Len(s)]) THEN RStrip(SubSeq(s, 1, Len(s) - 1)) ELSE s

\* the digits-and-underscores part of an int literal is well formed
DigitsOk(d) ==
    /\ d # <<>>
    /\ \A i \in 1 .. Len(d) : IsDigit(d[i]) \/ d[i] = Underscore
    /\ IsDigit(d[1]) /\ IsDigit(d[Len(d)])
    /\ \A i \in 1 .. (Len(d) - 1) : ~(d[i] = Underscore /\ d[i + 1] = Underscore)

RECURSIVE DigitsValue(_, _)
DigitsValue(d, acc) ==
    IF d = <<>> THEN acc
    ELSE IF Head(d) = Underscore THEN DigitsValue(Tail(d), acc)
    ELSE DigitsValue(Tail(d), 10 * acc + (Head(d) - 48))

\* int(s) for bytes s: [ok |-> FALSE] stands for the ValueError
IntOf(s) ==
    LET t == RStrip(LStrip(s))
        signed == t # <<>> /\ t[1] \in {Plus, Minus}
        d == IF signed THEN Tail(t) ELSE t
    IN  IF ~DigitsOk(d) THEN [ok |-> FALSE, n |-> 0]
        ELSE [ok |-> TRUE,
              n |-> IF signed /\ t[1] = Minus THEN 0 - DigitsValue(d, 0)
                    ELSE DigitsValue(d, 0)]

----------------------------------------------------------------------------
(* UTF-8.                                                                  *)

IsCont(b) == b \in 128 .. 191

\* bytes.decode('utf-8') from position i (1-based) on; acc is the text so far
RECURSIVE Utf8DecodeFrom(_, _, _)
Utf8DecodeFrom(bs, i, acc) ==
    IF i > Len(bs) THEN [ok |-> TRUE, cps |-> acc]
    ELSE LET b == bs[i]
             has(k) == i + k <= Len(bs) /\ \A j \in 1 .. k : IsCont(bs[i + j])
             bad == [ok |-> FALSE, cps |-> <<>>]
         IN  IF b < 128 THEN Utf8DecodeFrom(bs, i + 1, Append(acc, b))
             ELSE IF b \in 194 .. 223 THEN
                 IF has(1)
                 THEN Utf8DecodeFrom(bs, i + 2,
                          Append(acc, (b - 192) * 64 + (bs[i + 1] - 128)))
                 ELSE bad
             ELSE IF b \in 224 .. 239 THEN
                 IF has(2) /\ (b = 224 => bs[i + 1] >= 160)
                           /\ (b = 237 => bs[i + 1] < 160)
                 THEN Utf8DecodeFrom(bs, i + 3,
                          Append(acc, (b - 224) * 4096 + (bs[i + 1] - 128) * 64
                                      + (bs[i + 2] - 128)))
                 ELSE bad
             ELSE IF b \in 240 .. 244 THEN
                 IF has(3) /\ (b = 240 => bs[i + 1] >= 144)
                           /\ (b = 244 => bs[i + 1] < 144)
                 THEN Utf8DecodeFrom(bs, i + 4,
                          Append(acc, (b - 240) * 262144 + (bs[i + 1] - 128) * 4096
                                      + (bs[i + 2] - 128) * 64 + (bs[i + 3] - 128)))
                 ELSE bad
             ELSE bad

\* bytes.decode('utf-8'): [ok |-> FALSE] stands for the UnicodeDecodeError
Utf8Decode(bs) == Utf8DecodeFrom(bs, 1, <<>>)

\* the UTF-8 bytes of one code point (no surrogates)
Utf8Char(c) ==
    IF c < 128 THEN <<c>>
    ELSE IF c < 2048 THEN <<192 + (c \div 64), 128 + (c % 64)>>
    ELSE IF c < 65536 THEN
        <<224 + (c \div 4096), 128 + ((c \div 64) % 64), 128 + (c % 64)>>
    ELSE <<240 + (c \div 262144), 128 + ((c \div 4096) % 64),
           128 + ((c \div 64) % 64), 128 + (c % 64)>>

\* str.encode('utf-8')
RECURSIVE Utf8Encode(_)
Utf8Encode(cps) ==
    IF cps = <<>> THEN <<>> ELSE Utf8Char(Head(cps)) \o Utf8Encode(Tail(cps))

----------------------------------------------------------------------------
(* build_resp_command.                                                     *)

\* str.upper() of one code point below 256 (the text the model feeds in);
\* the result is a str because the sharp s becomes "SS"
UpperChar(c) ==
    IF c \in 97 .. 122 THEN <<c - 32>>
    ELSE IF c \in 224 .. 254 /\ c # 247 THEN <<c - 32>>
    ELSE IF c = 223 THEN <<83, 83>>
    ELSE IF c = 181 THEN <<924>>
    ELSE IF c = 255 THEN <<376>>
    ELSE <<c>>

\* str.upper()
RECURSIVE Upper(_)
Upper(cps) == IF cps = <<>> THEN <<>> ELSE UpperChar(Head(cps)) \o Upper(Tail(cps))

\* the decimal digits of n >= 0, as f"{n}" writes them
RECURSIVE DecStr(_)
DecStr(n) == IF n < 10 THEN <<48 + n>> ELSE DecStr(n \div 10) \o <<48 + (n % 10)>>

\* line 17: f"${len(str_part)}\r\n{str_part}\r\n", a str
PartStr(part) == <<Dollar>> \o DecStr(Len(part)) \o <<CR, LF>> \o part \o <<CR, LF>>

\* the for loop of lines 15-17 over parts, appended to protocol
RECURSIVE AppendParts(_, _)
AppendParts(protocol, parts) ==
    IF parts = <<>> THEN protocol
    ELSE AppendParts(protocol \o PartStr(Head(parts)), Tail(parts))

\* build_resp_command(command, *args)
build_resp_command(cmd, as) ==
    LET parts == <<Upper(cmd)>> \o as
        protocol == <<Star>> \o DecStr(Len(parts)) \o <<CR, LF>>
    IN  Utf8Encode(AppendParts(protocol, parts))

----------------------------------------------------------------------------
(* _parse.                                                                 *)

\* BulkValue without the test of line 46: -1 is taken as a length
BulkValueNoNil(buf, idx, length) ==
    LET value == Utf8Decode(Slice(buf, idx, idx + length))
    IN  IF ~value.ok THEN Raise("UnicodeDecodeError", "decode", <<>>)
        ELSE Ret(PyStr(value.cps), idx + length + 2)

\* lines 46-49: a bulk string whose length field, read up to idx, says length
BulkValue(buf, idx, length) ==
    IF length = -1 THEN Ret(PyNone, idx)
    ELSE LET value == Utf8Decode(Slice(buf, idx, idx + length))
         IN  IF ~value.ok THEN Raise("UnicodeDecodeError", "decode", <<>>)
             ELSE Ret(PyStr(value.cps), idx + length + 2)

RECURSIVE Parse(_, _), ParseElements(_, _, _, _)

\* the for loop of lines 56-58: count iterations left, elements so far
ParseElements(buf, idx, count, elements) ==
    IF count <= 0 THEN Ret(PyList(elements), idx)
    ELSE LET r == Parse(buf, idx)
         IN  IF r.k = "raise" THEN r
             ELSE ParseElements(buf, r.idx, count - 1, Append(elements, r.val))

\* _parse(buffer, idx)
Parse(buf, idx) ==
    IF idx >= Len(buf) THEN Ret(PyNone, idx)
    ELSE IF IndexOutOfRange(buf, idx) THEN Raise("IndexError", "subscript", <<>>)
    ELSE
      LET prefix == ByteAt(buf, idx)
          i1 == idx + 1
          end == IndexCRLF(buf, i1)
          field == Slice(buf, i1, end)
          notfound == Raise("ValueError", "index", <<>>)
          badint == Raise("ValueError", "int", <<>>)
          badutf == Raise("UnicodeDecodeError", "decode", <<>>)
      IN
        IF prefix = Plus THEN
            IF end = -1 THEN notfound
            ELSE LET content == Utf8Decode(field)
                 IN  IF ~content.ok THEN badutf
                     ELSE Ret(PyStr(content.cps), end + 2)
        ELSE IF prefix = Minus THEN
            IF end = -1 THEN notfound
            ELSE LET message == Utf8Decode(field)
                 IN  IF ~message.ok THEN badutf
                     ELSE Raise("RuntimeError", "redis", message.cps)
        ELSE IF prefix = Colon THEN
            IF end = -1 THEN notfound
            ELSE LET num == IntOf(field)
                 IN  IF ~num.ok THEN badint ELSE Ret(PyInt(num.n), end + 2)
        ELSE IF prefix = Dollar THEN
            IF end = -1 THEN notfound
            ELSE LET length == IntOf(field)
                     i2 == end + 2
                 IN  IF ~length.ok THEN badint
                     ELSE BulkValue(buf, i2, length.n)
        ELSE IF prefix = Star THEN
            IF end = -1 THEN notfound
            ELSE LET count == IntOf(field)
                 IN  IF ~count.ok THEN badint
                     ELSE ParseElements(buf, end + 2, count.n, <<>>)
        ELSE Raise("ValueError", "prefix", <<prefix>>)

\* parse_redis_response(response_buffer) on a bytes argument: what it returns,
\* or the ValueError it wraps every exception in (inner keeps the cause)
parse_redis_response(buf) ==
    LET r == Parse(buf, 0)
    IN  IF r.k = "ret" THEN [k |-> "return", val |-> r.val]
        ELSE [k |-> "raise", exc |-> "ValueError", why |-> "parse_redis_response",
              msg |-> r.msg, inner |-> r.why]

----------------------------------------------------------------------------
(* The wire format the peer speaks (spec section 6): frames and their      *)
(* bytes.  The peer's responses and the decoder's inputs are drawn from    *)
(* these, and the properties below use them to say what a buffer holds.    *)

FSimple(text) == [t |-> "simple", v |-> text]
FError(text) == [t |-> "error", v |-> text]
FInteger(n) == [t |-> "integer", v |-> <<n>>]
FBulk(bytes) == [t |-> "bulk", v |-> bytes]
FNilBulk == [t |-> "nilbulk", v |-> <<>>]
FArray(elems) == [t |-> "array", v |-> elems]
FNilArray == [t |-> "nilarray", v |-> <<>>]

\* a signed decimal
SignedDec(n) == IF n < 0 THEN <<Minus>> \o DecStr(0 - n) ELSE DecStr(n)

RECURSIVE Wire(_), WireAll(_)
\* the bytes of the frames of a sequence, one after the other
WireAll(fs) == IF fs = <<>> THEN <<>> ELSE Wire(Head(fs)) \o WireAll(Tail(fs))
\* the bytes of one frame
Wire(f) ==
    CASE f.t = "simple" -> <<Plus>> \o Utf8Encode(f.v) \o <<CR, LF>>
      [] f.t = "error" -> <<Minus>> \o Utf8Encode(f.v) \o <<CR, LF>>
      [] f.t = "integer" -> <<Colon>> \o SignedDec(f.v[1]) \o <<CR, LF>>
      [] f.t = "bulk" -> <<Dollar>> \o DecStr(Len(f.v)) \o <<CR, LF>> \o f.v \o <<CR, LF>>
      [] f.t = "nilbulk" -> <<Dollar, Minus, 49, CR, LF>>
      [] f.t = "array" -> <<Star>> \o DecStr(Len(f.v)) \o <<CR, LF>> \o WireAll(f.v)
      [] f.t = "nilarray" -> <<Star, Minus, 49, CR, LF>>

\* the array header declaring n elements
ArrayHeader(n) == <<Star>> \o DecStr(n) \o <<CR, LF>>

\* the first k bytes of s
Prefix(s, k) == SubSeq(s, 1, k)
\* every prefix of s, s included
Prefixes(s) == {Prefix(s, k) : k \in 0 .. Len(s)}

\* all sequences over S of length at most n
SeqsUpTo(S, n) == UNION {[1 .. k -> S] : k \in 0 .. n}

----------------------------------------------------------------------------
(* Bounds and the inputs drawn within them.                                *)

\* most elements of a generated array
MaxCount == 2
\* longest generated command name, in characters
MaxCmdLen == 2
\* most arguments of a generated request
MaxArgs == 2
\* longest generated argument, in characters
MaxArgLen == 1

\* characters of generated text: A, a, e-acute (two bytes in UTF-8)
TextChars == {65, 97, 233}

\* the command names passed to build_resp_command
Commands == SeqsUpTo(TextChars, MaxCmdLen) \ {<<>>}
\* the argument lists passed to build_resp_command
ArgLists == SeqsUpTo(SeqsUpTo(TextChars, MaxArgLen), MaxArgs)

\* frames that are not arrays
LeafFrames ==
    { FSimple(<<79, 75>>), FError(<<69>>), FInteger(7), FInteger(-3),
      FBulk(<<>>), FBulk(<<97>>), FBulk(<<195, 169>>), FNilBulk }
\* arrays of leaves
FlatArrays == {FArray(fs) : fs \in SeqsUpTo(LeafFrames, MaxCount)} \cup {FNilArray}
\* elements of the nested arrays
NestElems ==
    { FBulk(<<97>>), FArray(<<>>), FArray(<<FBulk(<<97>>)>>),
      FArray(<<FInteger(7), FNilBulk>>), FArray(<<FArray(<<FSimple(<<79, 75>>)>>)>>) }
\* arrays of arrays
NestedArrays == {FArray(fs) : fs \in SeqsUpTo(NestElems, MaxCount)}
\* bulk strings whose raw bytes are not UTF-8 text, alone and in an array
BinaryFrames ==
    { FBulk(<<255>>), FBulk(<<97, 128>>), FArray(<<FInteger(7), FBulk(<<255>>)>>) }
\* every generated frame
Frames == LeafFrames \cup FlatArrays \cup NestedArrays \cup BinaryFrames

\* buffers that break the grammar: an unknown marker, non-numeric integer,
\* length and count fields, lengths and counts below -1, a payload that is
\* not UTF-8
Malformed ==
    { <<63>>, <<63, CR, LF>>,
      <<Colon, 120, CR, LF>>, <<Colon, CR, LF>>,
      <<Dollar, 120, CR, LF>>, <<Star, 120, CR, LF>>,
      <<Dollar, Minus, 50, CR, LF>>, <<Dollar, Minus, 57, CR, LF, 97, 98>>,
      <<Star, Minus, 50, CR, LF>>,
      <<Star, 50, CR, LF, Dollar, Minus, 57, CR, LF, Colon, 55, CR, LF>>,
      <<Plus, 195, CR, LF>>,
      <<Plus, 79, 75, CR, LF, Plus, 79, 75, CR, LF>> }

\* the buffers handed to _parse: every prefix of a frame's bytes, and the
\* malformed buffers and their prefixes
DecodeInputs ==
    UNION {Prefixes(Wire(f)) : f \in Frames} \cup UNION {Prefixes(m) : m \in Malformed}

\* the frames the peer answers with
ResponseFrames ==
    LeafFrames \cup NestElems \cup {FArray(<<FBulk(<<97>>), FBulk(<<98>>)>>), FNilArray}
\* what the peer sends before it closes or falls silent: a frame, a
\* malformed answer, or any part of one (the peer may stop anywhere)
Responses ==
    UNION {Prefixes(Wire(f)) : f \in ResponseFrames} \cup
    UNION {Prefixes(m) : m \in Malformed}
\* the requests send_redis_command is called with
Requests ==
    { [command |-> <<71, 69, 84>>, args |-> <<<<107>>>>],
      [command |-> <<112, 105, 110, 103>>, args |-> <<>>] }

----------------------------------------------------------------------------
(* State the three specifications share.                                   *)

\* no _parse call has been made
NoOutcome == [k |-> "none"]

\* the transport is not in use
TransportIdle ==
    /\ sock = "none" /\ wire = <<>> /\ lastRecv = "none"
    /\ nconnect = 0 /\ nsend = 0 /\ nrecv = 0
    /\ fault = "none"
    /\ result = NoOutcome

transportVars == <<sock, wire, lastRecv, nconnect, nsend, nrecv, fault, result>>

----------------------------------------------------------------------------
(* SpecDec: one direct call _parse(buffer, offset).                        *)

InitDec ==
    /\ buffer \in DecodeInputs
    /\ offset \in 0 .. Len(buffer)
    /\ command = <<>> /\ args = <<>> /\ request = <<>>
    /\ parsed = NoOutcome
    /\ pc = "call"
    /\ TransportIdle

\* the call of _parse
DoParse ==
    /\ pc = "call"
    /\ parsed' = Parse(buffer, offset)
    /\ pc' = "parsed"
    /\ UNCHANGED <<command, args, request, buffer, offset>>
    /\ UNCHANGED transportVars

NextDec == DoParse

SpecDec == InitDec /\ [][NextDec]_vars

----------------------------------------------------------------------------
(* SpecEnc: one call build_resp_command(command, *args), whose bytes are   *)
(* then read back with _parse(request, 0).                                 *)

InitEnc ==
    /\ command \in Commands
    /\ args \in ArgLists
    /\ request = <<>> /\ buffer = <<>> /\ offset = 0
    /\ parsed = NoOutcome
    /\ pc = "call"
    /\ TransportIdle

\* the call of build_resp_command
Build ==
    /\ pc = "call"
    /\ request' = build_resp_command(command, args)
    /\ pc' = "built"
    /\ UNCHANGED <<command, args, buffer, offset, parsed>>
    /\ UNCHANGED transportVars

\* _parse on the bytes just built
ReadBack ==
    /\ pc = "built"
    /\ buffer' = request
    /\ parsed' = Parse(request, 0)
    /\ pc' = "parsed"
    /\ UNCHANGED <<command, args, request, offset>>
    /\ UNCHANGED transportVars

NextEnc == Build \/ ReadBack

SpecEnc == InitEnc /\ [][NextEnc]_vars

----------------------------------------------------------------------------
(* Spec: one call send_redis_command(command, *args) against a peer that   *)
(* has `wire` to say.  The peer, not the program, decides how the bytes    *)
(* are cut into reads, when a read times out and when the connection ends. *)

Init ==
    /\ \E r \in Requests : command = r.command /\ args = r.args
    /\ wire \in Responses
    /\ request = <<>> /\ buffer = <<>> /\ offset = 0
    /\ parsed = NoOutcome
    /\ pc = "start"
    /\ sock = "none" /\ lastRecv = "none"
    /\ nconnect = 0 /\ nsend = 0 /\ nrecv = 0
    /\ fault = "none"
    /\ result = NoOutcome

\* line 111: socket.timeout becomes RuntimeError("connection timed out")
TimeoutError == Raise("RuntimeError", "timeout", <<>>)
\* line 113: ConnectionRefusedError becomes RuntimeError("connection refused")
RefusedError == Raise("RuntimeError", "refused", <<>>)

\* Fail without the with block: the exception leaves the socket as it was
FailLeavesOpen(err) ==
    /\ UNCHANGED sock
    /\ result' = err
    /\ pc' = "done"

\* leaving the with block by an exception: the socket is closed, the call ends
Fail(err) ==
    /\ sock' = "closed"
    /\ result' = err
    /\ pc' = "done"

\* lines 85-87: socket(), settimeout(), connect() succeeds
Connect ==
    /\ pc = "start"
    /\ sock' = "open"
    /\ nconnect' = nconnect + 1
    /\ pc' = "connected"
    /\ UNCHANGED <<command, args, request, buffer, offset, parsed, wire,
                   lastRecv, nsend, nrecv, fault, result>>

\* line 87: connect() times out
ConnectTimeout ==
    /\ pc = "start"
    /\ nconnect' = nconnect + 1
    /\ fault' = "connect_timeout"
    /\ Fail(TimeoutError)
    /\ UNCHANGED <<command, args, request, buffer, offset, parsed, wire,
                   lastRecv, nsend, nrecv>>

\* ConnectRefused with the refusal caught by the handler of line 110
ConnectRefusedAsTimeout ==
    /\ pc = "start"
    /\ nconnect' = nconnect + 1
    /\ fault' = "connect_refused"
    /\ Fail(TimeoutError)
    /\ UNCHANGED <<command, args, request, buffer, offset, parsed, wire,
                   lastRecv, nsend, nrecv>>

\* line 87: connect() is refused
ConnectRefused ==
    /\ pc = "start"
    /\ nconnect' = nconnect + 1
    /\ fault' = "connect_refused"
    /\ Fail(RefusedError)
    /\ UNCHANGED <<command, args, request, buffer, offset, parsed, wire,
                   lastRecv, nsend, nrecv>>

\* lines 90-93: sendall(build_resp_command(...)) succeeds, buffer = b''
Send ==
    /\ pc = "connected"
    /\ request' = build_resp_command(command, args)
    /\ nsend' = nsend + 1
    /\ buffer' = <<>>
    /\ pc' = "recv"
    /\ UNCHANGED <<command, args, offset, parsed, sock, wire, lastRecv,
                   nconnect, nrecv, fault, result>>

\* line 90: sendall() times out
SendTimeout ==
    /\ pc = "connected"
    /\ request' = build_resp_command(command, args)
    /\ nsend' = nsend + 1
    /\ fault' = "send_timeout"
    /\ Fail(TimeoutError)
    /\ UNCHANGED <<command, args, buffer, offset, parsed, wire, lastRecv,
                   nconnect, nrecv>>

\* lines 95-106: recv() returns the next n bytes; they are appended and
\* _parse(buffer, 0) decides between break (line 104) and another read
\* (falling off the if, or the bare except of line 105)
RecvChunk ==
    /\ pc = "recv"
    /\ \E n \in 1 .. (IF Len(wire) < RecvSize THEN Len(wire) ELSE RecvSize) :
         LET chunk == SubSeq(wire, 1, n)
             buf == buffer \o chunk
             r == Parse(buf, 0)
         IN  /\ wire' = SubSeq(wire, n + 1, Len(wire))
             /\ buffer' = buf
             /\ parsed' = r
             /\ pc' = IF r.k = "ret" /\ r.idx = Len(buf) THEN "respond" ELSE "recv"
    /\ lastRecv' = "chunk"
    /\ nrecv' = nrecv + 1
    /\ UNCHANGED <<command, args, request, offset, sock, nconnect, nsend, fault,
                   result>>

\* lines 95-97: recv() returns b'' (the peer closed after all it sent), break
RecvEof ==
    /\ pc = "recv"
    /\ wire = <<>>
    /\ lastRecv' = "eof"
    /\ nrecv' = nrecv + 1
    /\ pc' = "respond"
    /\ UNCHANGED <<command, args, request, buffer, offset, parsed, sock, wire,
                   nconnect, nsend, fault, result>>

\* RecvTimeout answered by a new attempt: the socket is closed and the call
\* starts over with connect()
RecvTimeoutRetry ==
    /\ pc = "recv"
    /\ lastRecv' = "timeout"
    /\ nrecv' = nrecv + 1
    /\ fault' = "recv_timeout"
    /\ sock' = "closed"
    /\ pc' = "start"
    /\ UNCHANGED <<command, args, request, buffer, offset, parsed, wire,
                   nconnect, nsend, result>>

\* line 95: recv() times out
RecvTimeout ==
    /\ pc = "recv"
    /\ lastRecv' = "timeout"
    /\ nrecv' = nrecv + 1
    /\ fault' = "recv_timeout"
    /\ Fail(TimeoutError)
    /\ UNCHANGED <<command, args, request, buffer, offset, parsed, wire,
                   nconnect, nsend>>

\* line 108: return parse_redis_response(buffer), leaving the with block
Respond ==
    /\ pc = "respond"
    /\ result' = parse_redis_response(buffer)
    /\ sock' = "closed"
    /\ pc' = "done"
    /\ UNCHANGED <<command, args, request, buffer, offset, parsed, wire,
                   lastRecv, nconnect, nsend, nrecv, fault>>

Next ==
    \/ Connect \/ ConnectTimeout \/ ConnectRefused
    \/ Send \/ SendTimeout
    \/ RecvChunk \/ RecvEof \/ RecvTimeout
    \/ Respond

Spec == Init /\ [][Next]_vars

----------------------------------------------------------------------------
(* Properties of the decoder, under SpecDec.                               *)

\* the bytes of frame f start at offset o of buf
FrameAt(buf, o, f) == Slice(buf, o, o + Len(Wire(f))) = Wire(f)

\* buf is an array header declaring n >= 1 elements followed by fewer than
\* n complete element frames: a proper prefix of an array's bytes that
\* holds the whole header
TruncatedArray(buf) ==
    \E f \in FlatArrays \cup NestedArrays :
        /\ f.t = "array" /\ Len(f.v) >= 1
        /\ Len(buf) >= Len(ArrayHeader(Len(f.v)))
        /\ Len(buf) < Len(Wire(f))
        /\ buf = Prefix(Wire(f), Len(buf))

\* C1: decoding, at offset 0, an array header declaring n >= 1 elements
\* followed by fewer than n complete element frames reports Incomplete: no
\* value is returned, in particular no list with None for the missing
\* elements.
C1_TruncatedArrayIsIncomplete ==
    (pc = "parsed" /\ offset = 0 /\ TruncatedArray(buffer)) => parsed.k # "ret"

\* C4: decoding a complete error frame at offset o is a successful decode:
\* it returns a value carrying the text, and the offset just past the
\* terminator.
C4_ErrorFrameIsReturned ==
    \A f \in LeafFrames :
        (pc = "parsed" /\ f.t = "error" /\ FrameAt(buffer, offset, f)) =>
            /\ parsed.k = "ret"
            /\ parsed.idx = offset + Len(Wire(f))
            /\ parsed.val.v = f.v

\* the bytes $-1\r\n
NilBulkBytes == Wire(FNilBulk)
\* the bytes $0\r\n\r\n
EmptyBulkBytes == Wire(FBulk(<<>>))

\* C10: $-1\r\n decodes to None with the offset moved by 5, past the length
\* field only; $0\r\n\r\n decodes to the empty str with the offset moved by
\* 6; the two results differ.
C10_NilBulkVersusEmptyBulk ==
    pc = "parsed" =>
        /\ Slice(buffer, offset, offset + 5) = NilBulkBytes =>
               parsed = Ret(PyNone, offset + 5)
        /\ Slice(buffer, offset, offset + 6) = EmptyBulkBytes =>
               parsed = Ret(PyStr(<<>>), offset + 6)
        /\ Ret(PyNone, offset + 5) # Ret(PyStr(<<>>), offset + 6)

\* C10 witness: $-1\r\n has been decoded from offset 0
C10_Witness ==
    pc = "parsed" /\ buffer = NilBulkBytes /\ offset = 0 /\ parsed.k = "ret"

----------------------------------------------------------------------------
(* Properties of the encoder, under SpecEnc.                               *)

\* the bulk strings holding the texts of a sequence, byte for byte
RECURSIVE BulksOf(_)
BulksOf(texts) ==
    IF texts = <<>> THEN <<>>
    ELSE <<FBulk(Utf8Encode(Head(texts)))>> \o BulksOf(Tail(texts))

\* the str values of the texts of a sequence
RECURSIVE StrsOf(_)
StrsOf(texts) ==
    IF texts = <<>> THEN <<>> ELSE <<PyStr(Head(texts))>> \o StrsOf(Tail(texts))

\* C7: decoding encode(command, args) from offset 0 consumes all of it and
\* yields the list [command] + args, the command in the case it was given.
C7_RoundTrip ==
    pc = "parsed" =>
        parsed = Ret(PyList(StrsOf(<<command>> \o args)), Len(request))

\* C8: the length prefix of every element encode writes is the number of
\* bytes of its payload.  (The command may have been written in either
\* case: this is about lengths.)
C8_PrefixIsByteLength ==
    pc \in {"built", "parsed"} =>
        \E c \in {command, Upper(command)} :
            request = Wire(FArray(BulksOf(<<c>> \o args)))

\* C9: encode writes a header with the count 1 + len(args), then exactly
\* that many bulk strings, the command and then the arguments in order, and
\* nothing else.
C9_HeaderThenElementsInOrder ==
    pc \in {"built", "parsed"} =>
        request = ArrayHeader(1 + Len(args)) \o WireAll(BulksOf(<<command>> \o args))

----------------------------------------------------------------------------
(* Properties of the transport loop, under Spec.                           *)

\* everything the peer had to say: what was read and what was not yet
Response == buffer \o wire

\* the bytes of exactly one frame
CompleteResponses == {Wire(f) : f \in ResponseFrames}

\* _parse(buf, 0) returned a value and consumed all of buf
FullyConsumed(buf) == Parse(buf, 0).k = "ret" /\ Parse(buf, 0).idx = Len(buf)

\* a decode failure that more bytes cannot repair: an unknown marker byte or
\* a non-numeric integer, length or count field
IsProtocolError(r) == r.k = "raise" /\ r.why \in {"prefix", "int"}

\* C2: when a complete response frame arrives in several reads, the call
\* returns what it returns when the frame arrives in one read.
C2_SplitDeliveryEquivalent ==
    (pc = "done" /\ lastRecv = "chunk" /\ result.k = "return"
        /\ Response \in CompleteResponses) =>
            result = parse_redis_response(Response)

\* C3: a value is returned only for a buffer that _parse consumed in full,
\* and it is the decode of that buffer.
C3_ReturnedOnlyWhenFullyConsumed ==
    (pc = "done" /\ result.k = "return") =>
        /\ FullyConsumed(buffer)
        /\ result.val = Parse(buffer, 0).val

\* C5: when the peer closes before the buffer holds one complete frame, the
\* empty buffer included, the call returns no value.
C5_PeerCloseReturnsNoFrame ==
    (pc = "done" /\ lastRecv = "eof" /\ buffer \notin CompleteResponses) =>
        result.k = "raise"

\* C6: once decoding the accumulated buffer gives a ProtocolError the call
\* is over and has reported that error: no further read, no value, no
\* timeout.
C6_ProtocolErrorAborts ==
    IsProtocolError(parsed) =>
        pc = "done" /\ result.k = "raise" /\ result.inner \in {"prefix", "int"}

----------------------------------------------------------------------------
(* Further properties of the decoder, under SpecDec.                       *)

\* the bytes *-1\r\n
NilArrayBytes == Wire(FNilArray)
\* the bytes *0\r\n
EmptyArrayBytes == Wire(FArray(<<>>))

\* C11: *-1\r\n decodes to the nil array, which is not the empty list that
\* *0\r\n decodes to; no element is decoded and the offset ends just past
\* the count's terminator.
C11_NilArrayVersusEmptyArray ==
    pc = "parsed" =>
        /\ Slice(buffer, offset, offset + 4) = EmptyArrayBytes =>
               parsed = Ret(PyList(<<>>), offset + 4)
        /\ Slice(buffer, offset, offset + 5) = NilArrayBytes =>
               /\ parsed.k = "ret"
               /\ parsed.idx = offset + 5
               /\ parsed.val # PyList(<<>>)

----------------------------------------------------------------------------
(* Further properties of the transport loop, under Spec.                   *)

\* C13: however send_redis_command ends (value returned, connect refused,
\* timeout in connect, send or read, peer close, decode failure), the
\* socket it opened is closed by then.
C13_SocketClosedAtExit == pc = "done" => sock = "closed"

\* C13 witness: the call has ended in a read timeout after at least one
\* chunk was read, and the socket is closed
C13_Witness ==
    pc = "done" /\ fault = "recv_timeout" /\ buffer # <<>> /\ sock = "closed"

\* the socket calls that can time out
TimeoutFaults == {"connect_timeout", "send_timeout", "recv_timeout"}

\* C14 as stated: a timeout in connect or in a read is reported as the
\* Timeout failure, a refused connect as the Refused failure; the two
\* differ, neither is a returned value, and Timeout is reported only when
\* a connect or a read timed out.
C14_TimeoutOnlyFromConnectOrRead ==
    pc = "done" =>
        /\ fault \in {"connect_timeout", "recv_timeout"} => result = TimeoutError
        /\ fault = "connect_refused" => result = RefusedError
        /\ TimeoutError # RefusedError
        /\ result \in {TimeoutError, RefusedError} => result.k = "raise"
        /\ result = TimeoutError => fault \in {"connect_timeout", "recv_timeout"}

\* C14 amended: a timeout in connect, in sendall or in a read is reported
\* as the Timeout failure, a refused connect as the Refused failure; the
\* two differ, neither is a returned value, Timeout is reported only when
\* one of those three calls timed out, and Refused only on a refusal.
C14_TimeoutAndRefused ==
    pc = "done" =>
        /\ fault \in TimeoutFaults => result = TimeoutError
        /\ fault = "connect_refused" => result = RefusedError
        /\ TimeoutError # RefusedError
        /\ result \in {TimeoutError, RefusedError} => result.k = "raise"
        /\ result = TimeoutError => fault \in TimeoutFaults
        /\ result = RefusedError => fault = "connect_refused"

\* C14 witness: a refused connect has been reported as the Refused failure
C14_Witness ==
    pc = "done" /\ fault = "connect_refused" /\ result = RefusedError /\ nconnect = 1

----------------------------------------------------------------------------
(* Truncated and unterminated input, under SpecDec.                        *)

\* what is left of buf from offset o on is a bulk string cut short: the
\* whole length header of a bulk string declaring L >= 0 bytes, followed by
\* fewer than L + 2 bytes
TruncatedBulk(buf, o) ==
    \E f \in LeafFrames :
        /\ f.t = "bulk"
        /\ LET w == Wire(f)
               rest == Slice(buf, o, Len(buf))
           IN /\ Len(rest) >= Len(w) - Len(f.v) - 2
              /\ Len(rest) < Len(w)
              /\ rest = Prefix(w, Len(rest))

\* C15: decoding a bulk string declaring L >= 0 bytes when fewer than
\* L + 2 bytes follow the length header reports Incomplete: no value is
\* returned, so no payload shorter than L bytes and no consumed offset
\* beyond the end of the buffer.
C15_TruncatedBulkIsIncomplete ==
    (pc = "parsed" /\ offset < Len(buffer) /\ TruncatedBulk(buffer, offset)) =>
        parsed.k # "ret"

----------------------------------------------------------------------------
(* The error response, under Spec.                                         *)

\* the whole response is the error frame f and the reads have delivered it
ErrorResponseRead(f) ==
    /\ f.t = "error"
    /\ Response = Wire(f)
    /\ buffer = Wire(f)

\* C16: once the reads have delivered a response that is a single error
\* frame, the call is over and has raised the failure carrying the frame's
\* text: no further read, no timeout, no returned value.
C16_ErrorResponseSurfaces ==
    \A f \in ResponseFrames :
        ErrorResponseRead(f) =>
            /\ pc = "done"
            /\ result.k = "raise"
            /\ result # TimeoutError
            /\ "redis" \in {result.why, result.inner}
            /\ result.msg = Utf8Decode(f.v).cps

----------------------------------------------------------------------------
(* The unterminated field, under SpecDec.                                  *)

\* a marker byte that is followed by a terminated field
FieldMarkers == {Plus, Minus, Colon, Dollar, Star}

\* at offset o of buf stands a field marker and no CR LF follows it before
\* buf ends
UnterminatedField(buf, o) ==
    /\ o < Len(buf)
    /\ buf[o + 1] \in FieldMarkers
    /\ \A i \in (o + 2) .. (Len(buf) - 1) : ~(buf[i] = CR /\ buf[i + 1] = LF)

\* the exception classes _parse raises for an unknown marker byte and for a
\* non-numeric integer, length or count field
ProtocolErrorClasses ==
    {Parse(m, 0).exc : m \in {b \in Malformed : IsProtocolError(Parse(b, 0))}}

\* C17: decoding a field whose terminator does not occur before the buffer
\* ends returns no value and raises an exception of a class other than the
\* ones raised for a ProtocolError, so that the caller's except clause can
\* tell Incomplete from ProtocolError.
C17_IncompleteDistinctFromProtocolError ==
    (pc = "parsed" /\ UnterminatedField(buffer, offset)) =>
        /\ parsed.k = "raise"
        /\ parsed.exc \notin ProtocolErrorClasses

----------------------------------------------------------------------------
(* Well-formed frames and consumed offsets, under SpecDec.                 *)

RECURSIVE Plain(_)
\* f is a simple string, an integer, a bulk string, or an array of such
\* frames: no error frame and no nil array anywhere in it
Plain(f) ==
    \/ f.t \in {"simple", "integer", "bulk", "nilbulk"}
    \/ f.t = "array" /\ \A i \in 1 .. Len(f.v) : Plain(f.v[i])

RECURSIVE Represents(_, _)
\* the returned value val is the frame f: the text of a simple string, the
\* number of an integer, the payload bytes of a bulk string, None for the
\* nil bulk string, and for an array a list of as many values, each the
\* frame at its place
Represents(val, f) ==
    CASE f.t = "simple" -> val = PyStr(f.v)
      [] f.t = "integer" -> val = PyInt(f.v[1])
      [] f.t = "bulk" -> val.t = "str" /\ Utf8Encode(val.v) = f.v
      [] f.t = "nilbulk" -> val = PyNone
      [] f.t = "array" ->
            /\ val.t = "list"
            /\ Len(val.v) = Len(f.v)
            /\ \A i \in 1 .. Len(f.v) : Represents(val.v[i], f.v[i])
      [] OTHER -> FALSE

\* C18: decoding a well-formed complete frame (simple string, integer, bulk
\* string, array of such frames) that starts at offset o returns that
\* frame and o plus the frame's wire length; an array comes back with its
\* declared number of elements in wire order.
C18_WellFormedFrameDecodes ==
    \A f \in Frames :
        (pc = "parsed" /\ Plain(f) /\ FrameAt(buffer, offset, f)) =>
            /\ parsed.k = "ret"
            /\ parsed.idx = offset + Len(Wire(f))
            /\ Represents(parsed.val, f)

----------------------------------------------------------------------------
(* One connection, one request, under Spec.                                *)

\* C19: a call connects at most once and sends at most once; a read
\* happens only after the one connect and the one send of the whole
\* encoded request; a call that has ended, by a value or by any failure,
\* has connected exactly once, and takes no further step.
C19_OneConnectionOneSend ==
    /\ nconnect <= 1
    /\ nsend <= 1
    /\ nsend <= nconnect
    /\ nrecv >= 1 =>
          /\ nconnect = 1
          /\ nsend = 1
          /\ request = build_resp_command(command, args)
    /\ pc = "done" => (nconnect = 1 /\ ~ENABLED Next)

\* C19 witness: a call that read part of a response and then ended on a
\* read timeout, after one connect and one send
C19_Witness ==
    /\ pc = "done" /\ lastRecv = "timeout" /\ nrecv >= 2
    /\ nconnect = 1 /\ nsend = 1 /\ request # <<>>

----------------------------------------------------------------------------
(* Consumed offsets, under SpecDec.                                        *)

\* C20: a decode that starts inside the buffer and returns a value returns
\* a consumed offset greater than the starting offset, and never a
\* negative one, whatever length or count the buffer declares.
C20_OffsetAdvances ==
    (pc = "parsed" /\ offset < Len(buffer) /\ parsed.k = "ret") =>
        /\ parsed.idx > offset
        /\ parsed.idx >= 0

====
